---- MODULE Spec2Model ----
(***************************************************************************)
(* Client-side message synchronisation of the chat widget (ChatWidget /    *)
(* ChatWindow) and of the operator dashboard (AdminDashboard), against the *)
(* backend's event contract.                                               *)
(*                                                                         *)
(* Text is a sequence of one-character strings, so that String.trim() is   *)
(* computed and not assumed.  Session identifiers are drawn from Ids.      *)
(***************************************************************************)
EXTENDS Integers, Sequences, FiniteSets, TLC

VARIABLES
    route,              \* App: the route the page shows, "/" (MainPage) or "/admin"
    \* ---- durable browser storage
    localStorage,       \* value stored under 'chatSessionId', or Null
    \* ---- ChatWidget / ChatWindow (end-user page)
    open,               \* ChatWidget: const [open, setOpen] = useState(false)
    messages,           \* ChatWindow: const [messages, setMessages] = useState([])
    messageText,        \* ChatWindow: const [messageText, setMessageText] = useState('')
    currentSessionId,   \* ChatWindow: const [currentSessionId, ...] = useState(null)
    userLog,            \* history: the engine operations that took effect since mount
    lastOp,             \* history: the engine operation the last step performed, if any
    outbox,             \* events the page's socket emitted, in flight to the backend
    inbox,              \* events the backend sent, in flight to the page's socket
    \* ---- AdminDashboard (operator page)
    dashboard,          \* whether AdminDashboard is mounted
    sessions,           \* const [sessions, setSessions] = useState([])
    selectedSession,    \* const [selectedSession, setSelectedSession] = useState(null)
    sessionMessages,    \* const [sessionMessages, setSessionMessages] = useState([])
    replyText,          \* const [replyText, setReplyText] = useState('')
    adminLog,           \* history: the engine operations that took effect on the open view
    adminOutbox,        \* events the dashboard's socket emitted, in flight to the backend
    adminInbox,         \* events the backend sent, in flight to the dashboard's socket
    \* ---- backend (external; seen through the event contract)
    store,              \* authoritative message sequence of every conversation
    serverSession,      \* identifier the backend confirmed for the page's socket, or Null
    clock,              \* logical time: the number of messages created so far
    \* ---- socket.js: the connection shared by every component of the page
    sockets,            \* connections the page has opened with io(...)
    connection,         \* state of the connection
    attempts,           \* reconnection attempts that failed since the transport was lost
    losses,             \* history: transport losses so far
    listeners,          \* per inbound event name, the handlers registered with on(...),
                        \* each tagged with the value of `losses` at registration
    \* ---- chatgpt.jsx: the response-generation service
    apiKey,             \* this.apiKey, read from the environment by the constructor
    call,               \* history: the arguments of the last generateResponse call and
                        \* what fetch answered, or NoCall
    request,            \* the request body the last call handed to fetch, or NoRequest
    settled,            \* how the promise of the last call settled, or Pending
    \* ---- a second browser tab showing the end-user page
    peerTab             \* its ChatWindow: open, currentSessionId, messages, and inbox, the
                        \* pushes in flight to its socket

vars == << route, localStorage, open, messages, messageText, currentSessionId, userLog,
           outbox, inbox, dashboard, sessions, selectedSession, sessionMessages, replyText,
           adminLog, adminOutbox, adminInbox, store, serverSession, clock, lastOp,
           sockets, connection, attempts, losses, listeners,
           apiKey, call, request, settled, peerTab >>

widgetVars == << open, messages, messageText, currentSessionId, userLog, outbox, inbox >>
connVars   == << sockets, connection, attempts, losses >>
adminVars  == << route, dashboard, sessions, selectedSession, sessionMessages, replyText,
                 adminLog, adminOutbox, adminInbox >>
serviceVars == << apiKey, call, request, settled >>

\* What the chat and the connection never touch
aside == << serviceVars, peerTab >>

----------------------------------------------------------------------------
(* Bounds of the model *)

MaxClock == 2       \* messages created in one run
MaxQueue == 1       \* events in flight in one direction
MaxLoss  == 1       \* transport losses in one run
MaxHistory == 6     \* entries of the longest conversation history given to the service

----------------------------------------------------------------------------
(* Values *)

Null == "null"
Routes == {"/", "/admin"}
Ids  == {"s1", "s2"}

Empty    == << >>
Blank    == << " ", "\t" >>
Hello    == << "H", "e", "l", "l", "o" >>
HiThere  == << "H", "i", " ", "t", "h", "e", "r", "e" >>
PaddedHi == << " " >> \o HiThere \o << " ", " " >>

Texts    == {Empty, Blank, Hello, PaddedHi}     \* what the end user may type
Replies  == {Blank, PaddedHi}                   \* what the operator may type
Contents == {Hello, HiThere}                    \* what a pushed message may hold
UserContents == {Hello}                         \* what another end user writes
Roles    == {"user", "admin"}

\* io(url, { reconnectionAttempts: 5 })
reconnectionAttempts == 5

ConnectionStates == {"disconnected", "connecting", "connected", "reconnecting"}

\* The inbound events the views subscribe to
EventNames == {"message", "session_init", "sessions-list", "new-message",
               "messages-history"}

IsSpace(c) == c \in {" ", "\t", "\n"}

RECURSIVE TrimStart(_)
TrimStart(s) ==
    IF s = << >> THEN s
    ELSE IF IsSpace(Head(s)) THEN TrimStart(Tail(s)) ELSE s

RECURSIVE TrimEnd(_)
TrimEnd(s) ==
    IF s = << >> THEN s
    ELSE IF IsSpace(s[Len(s)]) THEN TrimEnd(SubSeq(s, 1, Len(s) - 1)) ELSE s

\* String.prototype.trim()
Trim(s) == TrimEnd(TrimStart(s))

\* JavaScript truthiness of a string: the empty string is falsy
Truthy(s) == s # << >>

\* new Date().toISOString(), on the logical clock
NowISO == clock

Message(sender, content, createdAt) ==
    [sender |-> sender, content |-> content, createdAt |-> createdAt]

\* The origin marker of an entry; entries built by the code carry none
Origin(m) == IF "origin" \in DOMAIN m THEN m.origin ELSE "none"

Event(name, sessionId, content) ==
    [event |-> name, sessionId |-> sessionId, content |-> content]

Push(name, data) == [type |-> name, data |-> data]

NoContent == << >>

\* One recorded operation of a view's message engine: appendLocal or mergeIncoming,
\* with the sender role of the message it was given
LogEntry(op, sender) == [op |-> op, sender |-> sender]

\* The operation a step performed: the view, the operation, the sender role of the
\* message it was given and, for appendLocal, whether the text given was empty,
\* only white space ("blank") or had content ("text")
Op(view, op, sender, given) ==
    [view |-> view, op |-> op, sender |-> sender, given |-> given]

NoOp == Op("none", "none", "none", "none")

\* Closing the chat window, with the sequence the window showed at that moment
CloseOp(shown) ==
    [view |-> "widget", op |-> "close", sender |-> "none", given |-> "none",
     shown |-> shown]

Given(text) ==
    IF text = Empty THEN "empty" ELSE IF Trim(text) = Empty THEN "blank" ELSE "text"

\* A roster entry, and the value standing for "no conversation selected" (null)
RosterEntry(sessionId, unread) == [sessionId |-> sessionId, unread |-> unread]

NoSession == RosterEntry(Null, FALSE)

\* socket.on(name, handler) and socket.off(name, handler), on the registered handlers
on(registered, name)  == [registered EXCEPT ![name] = Append(@, losses)]
off(registered, name) == [registered EXCEPT ![name] = IF @ = << >> THEN @ ELSE Tail(@)]

\* The second tab before it opens its chat window
NoTab == [open |-> FALSE, currentSessionId |-> Null, messages |-> << >>,
          inbox |-> << >>, missed |-> 0]

\* A component that calls io(...) for a connection of its own
openSocket(n) == n + 1

\* import socket from the socket.js module: the instance the module created
importSocket(n) == n

\* The value of apiKey before the module is evaluated, and the values
\* import.meta.env.VITE_OPENAI_API_KEY may have: undefined when the variable is not
\* set, the empty string, the placeholder of the sample configuration, or a key
NotLoaded   == "not loaded"
Undefined   == "undefined"
Placeholder == "your_openai_api_key_here"
ApiKeys     == {Undefined, "", Placeholder, "sk-proj-1"}

\* !key
Missing(key) == key \in {Undefined, ""}

\* The text of the i-th turn of a conversation: i characters, so that no two turns
\* of a history are alike
TurnText(i) == [j \in 1 .. i |-> "x"]

Turn(i) == [role |-> IF i % 2 = 1 THEN "user" ELSE "assistant", content |-> TurnText(i)]

\* The conversation histories a caller may pass: any stretch of a conversation of
\* MaxHistory turns, the empty one included
Conversation == [i \in 1 .. MaxHistory |-> Turn(i)]
Histories == {SubSeq(Conversation, a, b) : a \in 1 .. MaxHistory + 1, b \in 0 .. MaxHistory}

\* What the caller may pass as userMessage
UserMessages == {Hello, PaddedHi}

\* What fetch may produce: a response with a status and, on success, a completion;
\* or a rejection, the service being unreachable
Response(status, content) == [status |-> status, content |-> content]
NetworkError == Response(0, << "Failed to fetch" >>)
FetchOutcomes ==
    {Response(200, c) : c \in {Hello, PaddedHi}}
        \cup {Response(st, Empty) : st \in {401, 500}} \cup {NetworkError}

\* response.ok
ok(response) == response.status \in 200 .. 299

\* What is recorded for fetch when a call does not reach it
NotFetched == Response(0, << >>)

NoCall    == [userMessage |-> Empty, conversationHistory |-> << >>, asked |-> FALSE,
              reply |-> NotFetched]
NoRequest == [messages |-> << >>]
Pending   == [state |-> "pending", value |-> << >>]

Fulfilled(value)  == [state |-> "fulfilled", value |-> value]
Rejected(message) == [state |-> "rejected", value |-> message]

----------------------------------------------------------------------------
(* Initial state: both pages just loaded, nothing stored, nothing in flight *)

Init ==
    /\ route \in Routes
    /\ localStorage = Null
    /\ open = FALSE
    /\ messages = << >>
    /\ messageText = Empty
    /\ currentSessionId = Null
    /\ userLog = << >>
    /\ outbox = << >>
    /\ inbox = << >>
    /\ dashboard = FALSE
    /\ sessions = << >>
    /\ selectedSession = NoSession
    /\ sessionMessages = << >>
    /\ replyText = Empty
    /\ adminLog = << >>
    /\ adminOutbox = << >>
    /\ adminInbox = << >>
    /\ store = [s \in Ids |-> << >>]
    /\ serverSession = Null
    /\ clock = 0
    /\ lastOp = NoOp
    /\ sockets = 1
    /\ connection = "connecting"
    /\ attempts = 0
    /\ losses = 0
    /\ listeners = [name \in EventNames |-> << >>]
    /\ apiKey = NotLoaded
    /\ call = NoCall
    /\ request = NoRequest
    /\ settled = Pending
    /\ peerTab = NoTab

----------------------------------------------------------------------------
(* ChatWindow: the end-user conversation view *)

\* A session effect that synthesizes an identifier at every mount
sessionEffectAlwaysFresh(fresh) ==
    /\ localStorage' = fresh
    /\ currentSessionId' = fresh
    /\ outbox' = Append(outbox, Event("init_session", fresh, NoContent))

\* A session effect that never writes the synthesized identifier to storage
sessionEffectNoPersist(fresh) ==
    LET stored    == localStorage
        sessionId == IF stored = Null THEN fresh ELSE stored
    IN  /\ localStorage' = localStorage
        /\ currentSessionId' = sessionId
        /\ outbox' = Append(outbox, Event("init_session", sessionId, NoContent))

\* The session effect, run once when ChatWindow mounts.  `fresh` is the value of
\* `session_${Date.now()}_${Math.random()...}` should one be synthesized.
sessionEffect(fresh) ==
    LET stored    == localStorage
        sessionId == IF stored = Null THEN fresh ELSE stored
    IN  /\ localStorage' = IF stored = Null THEN sessionId ELSE localStorage
        /\ currentSessionId' = sessionId
        /\ outbox' = Append(outbox, Event("init_session", sessionId, NoContent))

\* A sendMessage that puts the new entry in front of the others
sendMessagePrepend ==
    /\ IF Truthy(Trim(messageText))
       THEN LET userMessage == Message("user", Trim(messageText), NowISO)
            IN  /\ messages' = << userMessage >> \o messages
                /\ outbox' = Append(outbox,
                        Event("user_message", currentSessionId, Trim(messageText)))
                /\ messageText' = Empty
                /\ clock' = clock + 1
       ELSE UNCHANGED << messages, outbox, messageText, clock >>
    /\ UNCHANGED << connection, attempts >>

\* A sendMessage whose guard tests the text as typed: if (messageText)
sendMessageUntrimmedGuard ==
    /\ IF Truthy(messageText)
       THEN LET userMessage == Message("user", Trim(messageText), NowISO)
            IN  /\ messages' = Append(messages, userMessage)
                /\ outbox' = Append(outbox,
                        Event("user_message", currentSessionId, Trim(messageText)))
                /\ messageText' = Empty
                /\ clock' = clock + 1
       ELSE UNCHANGED << messages, outbox, messageText, clock >>
    /\ UNCHANGED << connection, attempts >>

\* A sendMessage without the optimistic update: the entry is left to the echo
sendMessageEmitOnly ==
    /\ IF Truthy(Trim(messageText))
       THEN /\ outbox' = Append(outbox,
                    Event("user_message", currentSessionId, Trim(messageText)))
            /\ messageText' = Empty
            /\ clock' = clock + 1
            /\ UNCHANGED messages
       ELSE UNCHANGED << messages, outbox, messageText, clock >>
    /\ UNCHANGED << connection, attempts >>

\* A sendMessage that emits only while the socket is connected
sendMessageWhenConnected ==
    /\ IF Truthy(Trim(messageText))
       THEN LET userMessage == Message("user", Trim(messageText), NowISO)
            IN  /\ messages' = Append(messages, userMessage)
                /\ outbox' = IF connection = "connected"
                             THEN Append(outbox,
                                    Event("user_message", currentSessionId, Trim(messageText)))
                             ELSE outbox
                /\ messageText' = Empty
                /\ clock' = clock + 1
       ELSE UNCHANGED << messages, outbox, messageText, clock >>
    /\ UNCHANGED << connection, attempts >>

\* A sendMessage that calls socket.connect() when the socket is not connected
sendMessageReconnects ==
    /\ IF Truthy(Trim(messageText))
       THEN LET userMessage == Message("user", Trim(messageText), NowISO)
            IN  /\ messages' = Append(messages, userMessage)
                /\ outbox' = Append(outbox,
                        Event("user_message", currentSessionId, Trim(messageText)))
                /\ messageText' = Empty
                /\ clock' = clock + 1
       ELSE UNCHANGED << messages, outbox, messageText, clock >>
    /\ connection' = IF connection = "connected" THEN connection ELSE "connecting"
    /\ attempts' = IF connection = "connected" THEN attempts ELSE 0

\* sendMessage: optimistic append, then emit
sendMessage ==
    /\ IF Truthy(Trim(messageText))
       THEN LET userMessage == Message("user", Trim(messageText), NowISO)
            IN  /\ messages' = Append(messages, userMessage)
                /\ outbox' = Append(outbox,
                        Event("user_message", currentSessionId, Trim(messageText)))
                /\ messageText' = Empty
                /\ clock' = clock + 1
       ELSE UNCHANGED << messages, outbox, messageText, clock >>
    /\ UNCHANGED << connection, attempts >>

\* A 'message' listener that appends whatever the backend pushes
handleMessageUnfiltered(message) ==
    messages' = Append(messages, message)

\* A 'message' listener that takes a user-sender message for an echo only when it
\* repeats the entry shown last
handleMessageDedupLast(message) ==
    IF \/ message.sender = "admin"
       \/ messages = << >>
       \/ messages[Len(messages)].sender # message.sender
       \/ messages[Len(messages)].content # message.content
    THEN messages' = Append(messages, message)
    ELSE UNCHANGED messages

\* A 'message' listener that replaces the optimistic entry by the backend's copy
handleMessageReplaceByEcho(message) ==
    IF message.sender = "admin" \/ messages = << >>
    THEN messages' = Append(messages, message)
    ELSE messages' = Append(Tail(messages), message)

\* A 'message' listener that puts the operator's message first
handleMessagePrepend(message) ==
    IF message.sender = "admin"
    THEN messages' = << message >> \o messages
    ELSE UNCHANGED messages

\* handleMessage: the 'message' listener
handleMessage(message) ==
    IF message.sender = "admin"
    THEN messages' = Append(messages, message)
    ELSE UNCHANGED messages

\* ChatWindow's listener effects: socket.on at mount ...
subscribeChat(registered) == on(on(registered, "message"), "session_init")

\* Listener effects that return no cleanup
cleanupForgotten(registered) == registered

\* ... and the cleanup they return: socket.off at unmount
cleanupChat(registered) == off(off(registered, "message"), "session_init")

\* ChatWidget: the chat button sets open; ChatWindow mounts and runs its effects
OpenChat ==
    /\ UNCHANGED aside
    /\ route = "/"
    /\ ~open
    /\ Len(outbox) < MaxQueue
    /\ open' = TRUE
    /\ messages' = << >>
    /\ messageText' = Empty
    /\ userLog' = << >>
    /\ \E fresh \in Ids : sessionEffect(fresh)
    /\ lastOp' = NoOp
    /\ listeners' = subscribeChat(listeners)
    /\ sockets' = importSocket(sockets)
    /\ UNCHANGED << connection, attempts, losses, inbox, adminVars, store, serverSession, clock >>

\* ChatWidget: onClose sets open to false; ChatWindow unmounts and its state is gone
CloseChat ==
    /\ UNCHANGED aside
    /\ route = "/"
    /\ open
    /\ open' = FALSE
    /\ messages' = << >>
    /\ messageText' = Empty
    /\ currentSessionId' = Null
    /\ userLog' = << >>
    /\ lastOp' = CloseOp(messages)
    /\ listeners' = cleanupChat(listeners)
    /\ UNCHANGED << connVars, localStorage, outbox, inbox, adminVars, store, serverSession, clock >>

\* The input's onChange
TypeMessage ==
    /\ UNCHANGED aside
    /\ route = "/"
    /\ open
    /\ \E t \in Texts : messageText' = t
    /\ lastOp' = NoOp
    /\ UNCHANGED << connVars, listeners, localStorage, open, messages, currentSessionId, userLog,
                    outbox, inbox, adminVars, store, serverSession, clock >>

\* The person presses send
SendMessage ==
    /\ UNCHANGED aside
    /\ route = "/"
    /\ open
    /\ Truthy(Trim(messageText)) => (clock < MaxClock /\ Len(outbox) < MaxQueue)
    /\ sendMessage
    /\ lastOp' = Op("widget", "appendLocal", "user", Given(messageText))
    /\ userLog' = IF Truthy(Trim(messageText))
                  THEN Append(userLog, LogEntry("appendLocal", "user"))
                  ELSE userLog
    /\ UNCHANGED << sockets, losses, listeners, localStorage, open, currentSessionId, inbox, adminVars,
                    store, serverSession >>

\* The socket delivers a 'message' push; without a mounted ChatWindow nobody listens
DeliverMessage ==
    /\ UNCHANGED aside
    /\ route = "/"
    /\ connection = "connected"
    /\ inbox # << >>
    /\ Head(inbox).type = "message"
    /\ inbox' = Tail(inbox)
    /\ IF listeners["message"] # << >>
       THEN LET message == Head(inbox).data
            IN  /\ handleMessage(message)
                /\ lastOp' = Op("widget", "mergeIncoming", message.sender, "none")
                /\ userLog' = Append(userLog, LogEntry("mergeIncoming", message.sender))
       ELSE /\ lastOp' = Op("widget", "unheard", Head(inbox).data.sender, "none")
            /\ UNCHANGED << messages, userLog >>
    /\ UNCHANGED << connVars, listeners, localStorage, open, messageText, currentSessionId, outbox,
                    adminVars, store, serverSession, clock >>

\* The acknowledgment callback of init_session: console.log(response)
initSessionAck(response) ==
    UNCHANGED currentSessionId

DeliverAck ==
    /\ UNCHANGED aside
    /\ route = "/"
    /\ connection = "connected"
    /\ inbox # << >>
    /\ Head(inbox).type = "ack"
    /\ inbox' = Tail(inbox)
    /\ initSessionAck(Head(inbox).data)
    /\ lastOp' = NoOp
    /\ UNCHANGED << connVars, listeners, localStorage, open, messages, messageText, userLog, outbox,
                    adminVars, store, serverSession, clock >>

\* socket.on("session_init", (data) => setSessionId(data.sessionId))
handleSessionInit(data) ==
    currentSessionId' = data.sessionId

DeliverSessionInit ==
    /\ UNCHANGED aside
    /\ route = "/"
    /\ connection = "connected"
    /\ inbox # << >>
    /\ Head(inbox).type = "session_init"
    /\ inbox' = Tail(inbox)
    /\ IF listeners["session_init"] # << >>
       THEN handleSessionInit(Head(inbox).data)
       ELSE UNCHANGED currentSessionId
    /\ lastOp' = NoOp
    /\ UNCHANGED << connVars, listeners, localStorage, open, messages, messageText, userLog, outbox,
                    adminVars, store, serverSession, clock >>

\* The browser reloads the page: memory and socket are gone, localStorage stays
ReloadPage ==
    /\ UNCHANGED aside
    /\ route = "/"
    /\ open' = FALSE
    /\ messages' = << >>
    /\ messageText' = Empty
    /\ currentSessionId' = Null
    /\ userLog' = << >>
    /\ inbox' = << >>
    /\ outbox' = IF connection = "connected" THEN outbox ELSE << >>
    /\ listeners' = [name \in EventNames |-> << >>]
    /\ sockets' = 1
    /\ connection' = "connecting"
    /\ attempts' = 0
    /\ serverSession' = Null
    /\ lastOp' = NoOp
    /\ UNCHANGED << losses, localStorage, adminVars, store, clock >>

\* A second tab of the same browser opens the chat: its ChatWindow mounts, its session
\* effect finds the identifier the first tab stored, and the backend, handling its
\* init_session, joins its socket to that conversation's room
OpenPeerTab ==
    /\ UNCHANGED serviceVars
    /\ route = "/"
    /\ ~peerTab.open
    /\ localStorage # Null
    /\ peerTab' = [open |-> TRUE, currentSessionId |-> localStorage, messages |-> << >>,
                   inbox |-> << >>, missed |-> Len(store[localStorage])]
    /\ lastOp' = NoOp
    /\ UNCHANGED << route, localStorage, widgetVars, adminVars, store, serverSession, clock,
                    connVars, listeners >>

\* handleMessage in the second tab, on the sequence that tab shows
handleMessageInTab(prev, message) ==
    IF message.sender = "admin" THEN Append(prev, message) ELSE prev

\* The second tab's socket delivers a 'message' push
DeliverPeerTab ==
    /\ UNCHANGED serviceVars
    /\ route = "/"
    /\ peerTab.open
    /\ peerTab.inbox # << >>
    /\ peerTab' = [peerTab EXCEPT
                      !.inbox = Tail(@),
                      !.messages = handleMessageInTab(@, Head(peerTab.inbox).data)]
    /\ lastOp' = Op("tab", "mergeIncoming", Head(peerTab.inbox).data.sender, "none")
    /\ UNCHANGED << route, localStorage, widgetVars, adminVars, store, serverSession, clock,
                    connVars, listeners >>

----------------------------------------------------------------------------
(* Backend, as the end-user page sees it *)

\* init_session: the backend binds the socket to `confirmed` and answers, either
\* through the acknowledgment callback ("ack") or with a session_init push
ServerHandshake(confirmed, how) ==
    /\ UNCHANGED aside
    /\ route = "/"
    /\ connection = "connected"
    /\ outbox # << >>
    /\ Head(outbox).event = "init_session"
    /\ outbox' = Tail(outbox)
    /\ Len(inbox) < MaxQueue
    /\ inbox' = Append(inbox, Push(how, [sessionId |-> confirmed]))
    /\ serverSession' = confirmed
    /\ lastOp' = NoOp
    /\ UNCHANGED << connVars, listeners, localStorage, open, messages, messageText, currentSessionId,
                    userLog, adminVars, store, clock >>

\* The backend confirms the identifier the page proposed
ServerAckSession ==
    /\ outbox # << >>
    /\ ServerHandshake(Head(outbox).sessionId, "ack")

\* The backend confirms an identifier of its choosing, through either channel
ServerAssignSession ==
    \E confirmed \in Ids, how \in {"ack", "session_init"} :
        ServerHandshake(confirmed, how)

\* The backend's push of a message to the room of a conversation reaches the second
\* tab too, when its socket has joined that room
pushToPeerTab(sessionId, message) ==
    IF peerTab.open /\ peerTab.currentSessionId = sessionId
    THEN /\ Len(peerTab.inbox) < MaxQueue
         /\ peerTab' = [peerTab EXCEPT !.inbox = Append(@, Push("message", message))]
    ELSE UNCHANGED peerTab

\* user_message: the backend stores the message and pushes it to the session's room
ServerUserMessage ==
    /\ UNCHANGED serviceVars
    /\ route = "/"
    /\ connection = "connected"
    /\ outbox # << >>
    /\ Head(outbox).event = "user_message"
    /\ outbox' = Tail(outbox)
    /\ LET e       == Head(outbox)
           message == Message("user", e.content, NowISO)
       IN  /\ e.sessionId \in Ids
           /\ store' = [store EXCEPT ![e.sessionId] = Append(@, message)]
           /\ IF serverSession = e.sessionId
              THEN Len(inbox) < MaxQueue /\ inbox' = Append(inbox, Push("message", message))
              ELSE UNCHANGED inbox
           /\ pushToPeerTab(e.sessionId, message)
    /\ lastOp' = NoOp
    /\ UNCHANGED << connVars, listeners, localStorage, open, messages, messageText, currentSessionId,
                    userLog, adminVars, serverSession, clock >>

\* An operator answers in the page's conversation: stored, pushed to the room
PeerAdminMessage ==
    /\ UNCHANGED serviceVars
    /\ route = "/"
    /\ connection = "connected"
    /\ serverSession # Null
    /\ clock < MaxClock
    /\ Len(inbox) < MaxQueue
    /\ \E content \in Contents :
        LET message == Message("admin", content, NowISO)
        IN  /\ store' = [store EXCEPT ![serverSession] = Append(@, message)]
            /\ inbox' = Append(inbox, Push("message", message))
            /\ pushToPeerTab(serverSession, message)
    /\ clock' = clock + 1
    /\ lastOp' = NoOp
    /\ UNCHANGED << connVars, listeners, localStorage, open, messages, messageText, currentSessionId,
                    userLog, outbox, adminVars, serverSession >>

----------------------------------------------------------------------------
(* AdminDashboard: the operator's roster and conversation view *)

widgetSide == << route, localStorage, open, messages, messageText, currentSessionId,
                 userLog, outbox, inbox, serverSession >>

\* sessionsList.find(s => s.sessionId === sessionId): the first match, or NoSession
RECURSIVE find(_, _)
find(sessionsList, sessionId) ==
    IF sessionsList = << >> THEN NoSession
    ELSE IF Head(sessionsList).sessionId = sessionId THEN Head(sessionsList)
    ELSE find(Tail(sessionsList), sessionId)

\* The body of the roster effect, run at mount and again whenever its dependency
\* selectedSession changes: socket.emit('get-sessions')
rosterEffect(queue) == Append(queue, Event("get-sessions", Null, NoContent))

\* The roster effect's cleanup and re-subscription when it runs again
rosterResubscribe(registered) == on(off(registered, "sessions-list"), "sessions-list")

\* A 'sessions-list' listener that keeps the entries the snapshot does not name
handleSessionsListMerge(sessionsList) ==
    LET updatedSession == IF selectedSession # NoSession
                          THEN find(sessionsList, selectedSession.sessionId)
                          ELSE NoSession
        kept == SelectSeq(sessions, LAMBDA e : find(sessionsList, e.sessionId) = NoSession)
    IN  /\ sessions' = sessionsList \o kept
        /\ IF updatedSession # NoSession
           THEN /\ selectedSession' = updatedSession
                /\ adminOutbox' = rosterEffect(adminOutbox)
                /\ listeners' = rosterResubscribe(listeners)
           ELSE UNCHANGED << selectedSession, adminOutbox, listeners >>
        /\ UNCHANGED << connection, attempts >>

\* handleSessionsList: the 'sessions-list' listener
handleSessionsList(sessionsList) ==
    LET updatedSession == IF selectedSession # NoSession
                          THEN find(sessionsList, selectedSession.sessionId)
                          ELSE NoSession
    IN  /\ sessions' = sessionsList
        /\ IF updatedSession # NoSession
           THEN /\ selectedSession' = updatedSession
                /\ adminOutbox' = rosterEffect(adminOutbox)
                /\ listeners' = rosterResubscribe(listeners)
           ELSE UNCHANGED << selectedSession, adminOutbox, listeners >>
        /\ UNCHANGED << connection, attempts >>

\* sendReply: optimistic append, then emit
sendReply ==
    IF Truthy(Trim(replyText)) /\ selectedSession # NoSession
    THEN LET adminMessage == Message("admin", Trim(replyText), NowISO)
         IN  /\ sessionMessages' = Append(sessionMessages, adminMessage)
             /\ adminOutbox' = Append(adminOutbox,
                     Event("admin_message", selectedSession.sessionId, Trim(replyText)))
             /\ replyText' = Empty
             /\ clock' = clock + 1
    ELSE UNCHANGED << sessionMessages, adminOutbox, replyText, clock >>

\* The open conversation's mergeIncoming on the operator side: a message of the
\* operator's own role is an echo and is discarded, any other is appended
mergeIncomingAdmin(message) ==
    IF message.sender = "admin"
    THEN UNCHANGED sessionMessages
    ELSE sessionMessages' = Append(sessionMessages, message)

\* The roster with the preview and unread indicators of one conversation updated
RECURSIVE touch(_, _, _)
touch(roster, sessionId, message) ==
    IF roster = << >> THEN << >>
    ELSE << IF Head(roster).sessionId = sessionId
            THEN RosterEntry(sessionId, TRUE)
            ELSE Head(roster) >> \o touch(Tail(roster), sessionId, message)

\* A 'new-message' listener that merges the message whatever its conversation
handleNewMessageAnyConversation(data) ==
    /\ IF selectedSession # NoSession
       THEN mergeIncomingAdmin(data.message)
       ELSE UNCHANGED sessionMessages
    /\ sessions' = touch(sessions, data.sessionId, data.message)

\* The 'new-message' listener
handleNewMessage(data) ==
    /\ IF selectedSession # NoSession /\ data.sessionId = selectedSession.sessionId
       THEN mergeIncomingAdmin(data.message)
       ELSE UNCHANGED sessionMessages
    /\ sessions' = touch(sessions, data.sessionId, data.message)

\* A 'messages-history' listener that adds the history to what the view shows
handleMessagesHistoryAppend(history) ==
    sessionMessages' = sessionMessages \o history

\* The 'messages-history' listener: reset
handleMessagesHistory(history) ==
    sessionMessages' = history

\* The /admin page loads: AdminDashboard mounts and runs the roster effect
MountDashboard ==
    /\ UNCHANGED aside
    /\ route = "/admin"
    /\ ~dashboard
    /\ dashboard' = TRUE
    /\ adminOutbox' = rosterEffect(adminOutbox)
    /\ lastOp' = NoOp
    /\ listeners' = on(on(on(listeners, "sessions-list"), "new-message"),
                        "messages-history")
    /\ sockets' = importSocket(sockets)
    /\ UNCHANGED << connection, attempts, losses, widgetSide, sessions, selectedSession, sessionMessages, replyText,
                    adminLog, adminInbox, store, clock >>

\* onSelectSession: setSelectedSession(session) and socket.emit('get-messages'); a
\* selection that differs from the one held runs the roster effect again
selectSession(session) ==
    /\ selectedSession' = session
    /\ adminOutbox' =
         LET asked == Append(adminOutbox,
                          Event("get-messages", session.sessionId, NoContent))
         IN  IF session # selectedSession THEN rosterEffect(asked) ELSE asked
    /\ listeners' = IF session # selectedSession
                    THEN rosterResubscribe(listeners)
                    ELSE listeners

\* The operator clicks a session in the sidebar
SelectSession ==
    /\ UNCHANGED aside
    /\ route = "/admin"
    /\ dashboard
    /\ Len(adminOutbox) < MaxQueue
    /\ \E i \in 1 .. Len(sessions) : selectSession(sessions[i])
    /\ lastOp' = NoOp
    /\ UNCHANGED << connVars, widgetSide, dashboard, sessions, sessionMessages, replyText,
                    adminLog, adminInbox, store, clock >>

\* The reply input's onChange
TypeReply ==
    /\ UNCHANGED aside
    /\ route = "/admin"
    /\ dashboard
    /\ \E t \in Replies : replyText' = t
    /\ lastOp' = NoOp
    /\ UNCHANGED << connVars, listeners, widgetSide, dashboard, sessions, selectedSession, sessionMessages,
                    adminLog, adminOutbox, adminInbox, store, clock >>

\* The operator presses send
SendReply ==
    /\ UNCHANGED aside
    /\ route = "/admin"
    /\ dashboard
    /\ (Truthy(Trim(replyText)) /\ selectedSession # NoSession)
          => (clock < MaxClock /\ Len(adminOutbox) < MaxQueue)
    /\ sendReply
    /\ lastOp' = Op("dashboard", "appendLocal", "admin", Given(replyText))
    /\ adminLog' = IF Truthy(Trim(replyText)) /\ selectedSession # NoSession
                   THEN Append(adminLog, LogEntry("appendLocal", "admin"))
                   ELSE adminLog
    /\ UNCHANGED << connVars, listeners, widgetSide, dashboard, sessions, selectedSession, adminInbox, store >>

DeliverSessionsList ==
    /\ UNCHANGED aside
    /\ route = "/admin"
    /\ connection = "connected"
    /\ listeners["sessions-list"] # << >>
    /\ adminInbox # << >>
    /\ Head(adminInbox).type = "sessions-list"
    /\ adminInbox' = Tail(adminInbox)
    /\ handleSessionsList(Head(adminInbox).data)
    /\ lastOp' = Op("dashboard", "replaceRoster", "none", "none")
    /\ UNCHANGED << sockets, losses, widgetSide, dashboard, sessionMessages, replyText, adminLog,
                    store, clock >>

DeliverNewMessage ==
    /\ UNCHANGED aside
    /\ route = "/admin"
    /\ connection = "connected"
    /\ listeners["new-message"] # << >>
    /\ adminInbox # << >>
    /\ Head(adminInbox).type = "new-message"
    /\ adminInbox' = Tail(adminInbox)
    /\ LET data == Head(adminInbox).data
       IN  /\ handleNewMessage(data)
           /\ IF selectedSession # NoSession /\ data.sessionId = selectedSession.sessionId
              THEN /\ lastOp' = Op("dashboard", "mergeIncoming",
                                   data.message.sender, "none")
                   /\ adminLog' = Append(adminLog,
                                   LogEntry("mergeIncoming", data.message.sender))
              ELSE /\ lastOp' = Op("dashboard", "notify", data.message.sender, "none")
                   /\ UNCHANGED adminLog
    /\ UNCHANGED << connVars, listeners, widgetSide, dashboard, selectedSession, replyText, adminOutbox,
                    store, clock >>

DeliverMessagesHistory ==
    /\ UNCHANGED aside
    /\ route = "/admin"
    /\ connection = "connected"
    /\ listeners["messages-history"] # << >>
    /\ adminInbox # << >>
    /\ Head(adminInbox).type = "messages-history"
    /\ adminInbox' = Tail(adminInbox)
    /\ handleMessagesHistory(Head(adminInbox).data)
    /\ lastOp' = Op("dashboard", "reset", "none", "none")
    /\ adminLog' = << LogEntry("reset", "none") >>
    /\ UNCHANGED << connVars, listeners, widgetSide, dashboard, sessions, selectedSession, replyText,
                    adminOutbox, store, clock >>

----------------------------------------------------------------------------
(* Backend, as the operator page sees it *)

IdOrder == << "s1", "s2" >>

\* The roster entry the backend reports for a conversation
Summary(sessionId) ==
    LET stored == store[sessionId]
    IN  RosterEntry(sessionId,
                    stored # << >> /\ stored[Len(stored)].sender = "user")

\* A roster snapshot: the conversations of `active`, in identifier order
RECURSIVE Snapshot(_, _)
Snapshot(order, active) ==
    IF order = << >> THEN << >>
    ELSE (IF Head(order) \in active THEN << Summary(Head(order)) >> ELSE << >>)
         \o Snapshot(Tail(order), active)

\* get-sessions: answered with a sessions-list snapshot of the conversations `active`
ServerSessionsList(active) ==
    /\ UNCHANGED aside
    /\ route = "/admin"
    /\ connection = "connected"
    /\ adminOutbox # << >>
    /\ Head(adminOutbox).event = "get-sessions"
    /\ adminOutbox' = Tail(adminOutbox)
    /\ Len(adminInbox) < MaxQueue
    /\ adminInbox' = Append(adminInbox, Push("sessions-list", Snapshot(IdOrder, active)))
    /\ lastOp' = NoOp
    /\ UNCHANGED << connVars, listeners, widgetSide, dashboard, sessions, selectedSession, sessionMessages,
                    replyText, adminLog, store, clock >>

\* The backend lists every conversation it knows
ServerGetSessions == ServerSessionsList(Ids)

\* The backend lists the conversations still active: closed or expired ones drop out
ServerGetActiveSessions == \E active \in SUBSET Ids : ServerSessionsList(active)

\* get-messages: answered with the conversation's stored history
ServerGetMessages ==
    /\ UNCHANGED aside
    /\ route = "/admin"
    /\ connection = "connected"
    /\ adminOutbox # << >>
    /\ Head(adminOutbox).event = "get-messages"
    /\ adminOutbox' = Tail(adminOutbox)
    /\ Len(adminInbox) < MaxQueue
    /\ adminInbox' = Append(adminInbox,
                        Push("messages-history", store[Head(adminOutbox).sessionId]))
    /\ lastOp' = NoOp
    /\ UNCHANGED << connVars, listeners, widgetSide, dashboard, sessions, selectedSession, sessionMessages,
                    replyText, adminLog, store, clock >>

\* admin_message: stored, and announced to the dashboards with new-message
ServerAdminMessage ==
    /\ UNCHANGED aside
    /\ route = "/admin"
    /\ connection = "connected"
    /\ adminOutbox # << >>
    /\ Head(adminOutbox).event = "admin_message"
    /\ adminOutbox' = Tail(adminOutbox)
    /\ Len(adminInbox) < MaxQueue
    /\ LET e       == Head(adminOutbox)
           message == Message("admin", e.content, NowISO)
       IN  /\ store' = [store EXCEPT ![e.sessionId] = Append(@, message)]
           /\ adminInbox' = Append(adminInbox,
                   Push("new-message", [sessionId |-> e.sessionId, message |-> message]))
    /\ lastOp' = NoOp
    /\ UNCHANGED << connVars, listeners, widgetSide, dashboard, sessions, selectedSession, sessionMessages,
                    replyText, adminLog, clock >>

\* An end user writes in some conversation: stored, announced with new-message
PeerUserMessage ==
    /\ UNCHANGED aside
    /\ route = "/admin"
    /\ connection = "connected"
    /\ clock < MaxClock
    /\ Len(adminInbox) < MaxQueue
    /\ \E sessionId \in Ids, content \in UserContents :
        LET message == Message("user", content, NowISO)
        IN  /\ store' = [store EXCEPT ![sessionId] = Append(@, message)]
            /\ adminInbox' = Append(adminInbox,
                    Push("new-message", [sessionId |-> sessionId, message |-> message]))
    /\ clock' = clock + 1
    /\ lastOp' = NoOp
    /\ UNCHANGED << connVars, listeners, widgetSide, dashboard, sessions, selectedSession, sessionMessages,
                    replyText, adminLog, adminOutbox >>

----------------------------------------------------------------------------
(* socket.js: the lifecycle of the shared connection, run by socket.io-client *)

ConnOp(name) == Op("connection", name, "none", "none")

\* What no transition of the connection touches
connFrame == << route, localStorage, open, messages, messageText, currentSessionId,
                userLog, dashboard, sessions, selectedSession, sessionMessages,
                replyText, adminLog, store, clock, sockets, listeners >>

\* The connection opened by io(...) is established
SocketConnect ==
    /\ UNCHANGED aside
    /\ connection = "connecting"
    /\ connection' = "connected"
    /\ attempts' = 0
    /\ lastOp' = ConnOp("connect")
    /\ UNCHANGED << connFrame, outbox, inbox, adminOutbox, adminInbox, serverSession,
                    losses >>

\* The transport is lost: what the backend had sent is gone, what the page had
\* emitted may be gone, and the backend forgets the socket
TransportLoss ==
    /\ UNCHANGED aside
    /\ connection = "connected"
    /\ losses < MaxLoss
    /\ connection' = "reconnecting"
    /\ attempts' = 0
    /\ losses' = losses + 1
    /\ inbox' = << >>
    /\ adminInbox' = << >>
    /\ \E lost \in BOOLEAN :
        /\ outbox' = IF lost THEN << >> ELSE outbox
        /\ adminOutbox' = IF lost THEN << >> ELSE adminOutbox
    /\ serverSession' = Null
    /\ lastOp' = ConnOp("loss")
    /\ UNCHANGED connFrame

\* A reconnection attempt fails, with no bound on the attempts
ReconnectAttemptUnbounded ==
    /\ UNCHANGED aside
    /\ connection = "reconnecting"
    /\ attempts' = attempts + 1
    /\ lastOp' = ConnOp("attempt")
    /\ UNCHANGED << connFrame, connection, outbox, inbox, adminOutbox, adminInbox,
                    serverSession, losses >>

\* A reconnection attempt fails
ReconnectAttemptFails ==
    /\ UNCHANGED aside
    /\ connection = "reconnecting"
    /\ attempts < reconnectionAttempts
    /\ attempts' = attempts + 1
    /\ lastOp' = ConnOp("attempt")
    /\ UNCHANGED << connFrame, connection, outbox, inbox, adminOutbox, adminInbox,
                    serverSession, losses >>

\* A reconnection that comes up as a new socket object, without the handlers
ReconnectNewSocket ==
    /\ UNCHANGED aside
    /\ connection = "reconnecting"
    /\ attempts < reconnectionAttempts
    /\ connection' = "connected"
    /\ attempts' = 0
    /\ listeners' = [name \in EventNames |-> << >>]
    /\ lastOp' = ConnOp("reconnect")
    /\ UNCHANGED << route, localStorage, open, messages, messageText, currentSessionId,
                    userLog, dashboard, sessions, selectedSession, sessionMessages,
                    replyText, adminLog, store, clock, sockets, outbox, inbox,
                    adminOutbox, adminInbox, serverSession, losses >>

\* A reconnection attempt succeeds
Reconnect ==
    /\ UNCHANGED aside
    /\ connection = "reconnecting"
    /\ attempts < reconnectionAttempts
    /\ connection' = "connected"
    /\ attempts' = 0
    /\ lastOp' = ConnOp("reconnect")
    /\ UNCHANGED << connFrame, outbox, inbox, adminOutbox, adminInbox, serverSession,
                    losses >>

\* Every attempt allowed has failed: reconnect_failed, the connection stays down
ReconnectFailed ==
    /\ UNCHANGED aside
    /\ connection = "reconnecting"
    /\ attempts = reconnectionAttempts
    /\ connection' = "disconnected"
    /\ lastOp' = ConnOp("reconnect_failed")
    /\ UNCHANGED << connFrame, attempts, outbox, inbox, adminOutbox, adminInbox,
                    serverSession, losses >>

----------------------------------------------------------------------------
(* chatgpt.jsx: ChatGPTService, the response-generation service *)

\* new Error('OpenAI API key is not configured')
KeyError == << "OpenAI API key is not configured" >>

\* new Error(`OpenAI API error: ${response.status}`)
ApiError(status) == << "OpenAI API error: " \o ToString(status) >>

\* A slice that keeps the entries at the front: slice(0, -start)
sliceHead(array, start) ==
    SubSeq(array, 1, IF Len(array) < -start THEN Len(array) ELSE -start)

\* Array.prototype.slice(start): from index start, counted from the end when negative
slice(array, start) ==
    LET n     == Len(array)
        begin == IF start < 0
                 THEN (IF n + start < 0 THEN 0 ELSE n + start)
                 ELSE (IF start > n THEN n ELSE start)
    IN  SubSeq(array, begin + 1, n)

SystemPrompt ==
    [role |-> "system",
     content |-> << "You are a helpful assistant. Provide concise, helpful responses to user questions." >>]

\* A generateResponse that tests only whether a key is present
generateResponseAnyKey(userMessage, conversationHistory, reply) ==
    IF Missing(apiKey)
    THEN /\ request' = NoRequest
         /\ settled' = Rejected(KeyError)
    ELSE LET requestMessages ==
                 << SystemPrompt >> \o slice(conversationHistory, -5)
                     \o << [role |-> "user", content |-> userMessage] >>
             requestBody == [messages |-> requestMessages]
         IN  /\ request' = requestBody
             /\ settled' = IF reply = NetworkError THEN Rejected(reply.content)
                           ELSE IF ~ok(reply) THEN Rejected(ApiError(reply.status))
                           ELSE Fulfilled(Trim(reply.content))

\* generateResponse(userMessage, conversationHistory); reply is what fetch produces
\* should the call reach it
generateResponse(userMessage, conversationHistory, reply) ==
    IF Missing(apiKey) \/ apiKey = Placeholder
    THEN /\ request' = NoRequest
         /\ settled' = Rejected(KeyError)
    ELSE LET requestMessages ==
                 << SystemPrompt >> \o slice(conversationHistory, -5)
                     \o << [role |-> "user", content |-> userMessage] >>
             requestBody == [messages |-> requestMessages]
         IN  /\ request' = requestBody
             /\ settled' = IF reply = NetworkError THEN Rejected(reply.content)
                           ELSE IF ~ok(reply) THEN Rejected(ApiError(reply.status))
                           ELSE Fulfilled(Trim(reply.content))

\* export const chatGPTService = new ChatGPTService(): the constructor reads the key
LoadService ==
    /\ apiKey = NotLoaded
    /\ apiKey' \in ApiKeys
    /\ lastOp' = NoOp
    /\ UNCHANGED << route, localStorage, widgetVars, adminVars, store, serverSession, clock,
                    connVars, listeners, call, request, settled, peerTab >>

ServiceOp(state) == Op("service", "generateResponse", "none", state)

\* Some caller awaits chatGPTService.generateResponse(userMessage, conversationHistory)
\* with a history of `histories`
Respond(histories) ==
    /\ apiKey # NotLoaded
    /\ \E userMessage \in UserMessages, conversationHistory \in histories,
          reply \in FetchOutcomes :
        /\ generateResponse(userMessage, conversationHistory, reply)
        /\ call' = [userMessage |-> userMessage,
                    conversationHistory |-> conversationHistory, asked |-> TRUE,
                    reply |-> IF request' = NoRequest THEN NotFetched ELSE reply]
    /\ lastOp' = ServiceOp(settled'.state)
    /\ UNCHANGED << route, localStorage, widgetVars, adminVars, store, serverSession, clock,
                    connVars, listeners, apiKey, peerTab >>

GenerateResponse == Respond(Histories)

\* generateResponse(userMessage): conversationHistory takes its default, []
GenerateResponseDefault == Respond({<< >>})

----------------------------------------------------------------------------
(* Specifications *)

\* A client process shows one route: the end-user page or the operator page
Next ==
    \/ SocketConnect
    \/ OpenChat
    \/ CloseChat
    \/ TypeMessage
    \/ SendMessage
    \/ DeliverMessage
    \/ DeliverAck
    \/ ReloadPage
    \/ ServerAckSession
    \/ ServerUserMessage
    \/ PeerAdminMessage
    \/ MountDashboard
    \/ SelectSession
    \/ TypeReply
    \/ SendReply
    \/ DeliverSessionsList
    \/ DeliverNewMessage
    \/ DeliverMessagesHistory
    \/ ServerGetSessions
    \/ ServerGetMessages
    \/ ServerAdminMessage
    \/ PeerUserMessage

Spec == Init /\ [][Next]_vars

\* The end-user page against a backend that may assign the identifier itself
NextSession ==
    \/ SocketConnect
    \/ OpenChat
    \/ CloseChat
    \/ TypeMessage
    \/ SendMessage
    \/ DeliverMessage
    \/ DeliverAck
    \/ DeliverSessionInit
    \/ ReloadPage
    \/ ServerAssignSession
    \/ ServerUserMessage

SpecSession == Init /\ [][NextSession]_vars

\* The operator page against a backend whose conversations may close or expire
NextRoster ==
    \/ SocketConnect
    \/ MountDashboard
    \/ SelectSession
    \/ DeliverSessionsList
    \/ DeliverNewMessage
    \/ DeliverMessagesHistory
    \/ ServerGetActiveSessions
    \/ ServerGetMessages
    \/ PeerUserMessage

SpecRoster == Init /\ [][NextRoster]_vars

\* Either page over a connection whose transport may be lost
NextConn ==
    \/ SocketConnect
    \/ TransportLoss
    \/ ReconnectAttemptFails
    \/ Reconnect
    \/ ReconnectFailed
    \/ OpenChat
    \/ CloseChat
    \/ TypeMessage
    \/ SendMessage
    \/ DeliverMessage
    \/ DeliverAck
    \/ ServerAckSession
    \/ ServerUserMessage
    \/ MountDashboard
    \/ SelectSession
    \/ DeliverSessionsList
    \/ DeliverMessagesHistory
    \/ ServerGetSessions
    \/ ServerGetMessages

SpecConn == Init /\ [][NextConn]_vars

\* The operator page with an operator who answers
NextHistory ==
    \/ SocketConnect
    \/ MountDashboard
    \/ SelectSession
    \/ TypeReply
    \/ SendReply
    \/ DeliverSessionsList
    \/ DeliverNewMessage
    \/ DeliverMessagesHistory
    \/ ServerGetSessions
    \/ ServerGetMessages
    \/ ServerAdminMessage

SpecHistory == Init /\ [][NextHistory]_vars

\* Either page with a person who sends: the end user in the widget, the operator
\* in the dashboard
NextSend ==
    \/ SocketConnect
    \/ OpenChat
    \/ TypeMessage
    \/ SendMessage
    \/ DeliverMessage
    \/ DeliverAck
    \/ ServerAckSession
    \/ ServerUserMessage
    \/ MountDashboard
    \/ SelectSession
    \/ TypeReply
    \/ SendReply
    \/ DeliverSessionsList
    \/ DeliverNewMessage
    \/ DeliverMessagesHistory
    \/ ServerGetSessions
    \/ ServerGetMessages
    \/ ServerAdminMessage

SpecSend == Init /\ [][NextSend]_vars

\* The response-generation service on its own
NextService ==
    \/ LoadService
    \/ GenerateResponse

SpecService == Init /\ [][NextService]_vars

\* Either page, up to its first exchanges, with the response-generation service
\* called at any moment
NextFailure ==
    \/ LoadService
    \/ GenerateResponseDefault
    \/ SocketConnect
    \/ OpenChat
    \/ TypeMessage
    \/ SendMessage
    \/ ServerAckSession
    \/ DeliverAck
    \/ MountDashboard
    \/ ServerGetSessions
    \/ DeliverSessionsList
    \/ TypeReply
    \/ SendReply

SpecFailure == Init /\ [][NextFailure]_vars

\* The end-user page open in two tabs of one browser
NextTabs ==
    \/ SocketConnect
    \/ OpenChat
    \/ TypeMessage
    \/ SendMessage
    \/ DeliverMessage
    \/ DeliverAck
    \/ ServerAckSession
    \/ ServerUserMessage
    \/ PeerAdminMessage
    \/ OpenPeerTab
    \/ DeliverPeerTab

SpecTabs == Init /\ [][NextTabs]_vars

----------------------------------------------------------------------------
(* Merging a pushed message *)

WidgetMerge(sender)    == Op("widget", "mergeIncoming", sender, "none")
DashboardMerge(sender) == Op("dashboard", "mergeIncoming", sender, "none")

\* C1: a step that merges a pushed message whose sender role is the view's own
\* role (user in the widget, admin in the dashboard) leaves the view's visible
\* sequence as it was: same length, same entries, same order
MergeOwnRoleIsNoOp ==
    [][ /\ (lastOp' = WidgetMerge("user")) => (messages' = messages)
        /\ (lastOp' = DashboardMerge("admin")) => (sessionMessages' = sessionMessages)
      ]_vars

\* The widget has just merged the echo of a message it shows
MergeOwnRoleSeen ==
    /\ lastOp = WidgetMerge("user")
    /\ messages # << >>
    /\ messages[Len(messages)].sender = "user"

\* C2: a step that merges a pushed message of the other party's role appends that
\* message, and only it, after the entries the view had, which stay as they were
MergeOtherRoleAppendsLast ==
    [][ /\ (lastOp' = WidgetMerge("admin"))
              => (messages' = Append(messages, Head(inbox).data))
        /\ (lastOp' = DashboardMerge("user"))
              => (sessionMessages' = Append(sessionMessages, Head(adminInbox).data.message))
      ]_vars

\* The widget has just merged an operator's message behind an entry it had
MergeOtherRoleSeen ==
    /\ lastOp = WidgetMerge("admin")
    /\ Len(messages) >= 2
    /\ messages[Len(messages)].sender = "admin"

----------------------------------------------------------------------------
(* The visible sequence against the authoritative one *)

\* The sender and content of each entry of a message sequence, in order
Keys(seq) == [i \in 1 .. Len(seq) |-> << seq[i].sender, seq[i].content >>]

\* C3: with the widget open on its confirmed conversation and nothing in flight
\* (so no local entry is unconfirmed), the visible sequence is the backend's
\* authoritative sequence of that conversation: every stored message once, in the
\* backend's order
VisibleIsAuthoritative ==
    ( /\ route = "/"
      /\ open
      /\ currentSessionId = serverSession
      /\ outbox = << >>
      /\ inbox = << >> )
        => (Keys(messages) = Keys(store[currentSessionId]))

----------------------------------------------------------------------------
(* Appending a local message *)

WidgetAppend(given)    == Op("widget", "appendLocal", "user", given)
DashboardAppend(given) == Op("dashboard", "appendLocal", "admin", given)

\* C4 (as stated): every appendLocal call whose content is neither empty nor only
\* white space, by sendMessage or by sendReply, adds exactly one entry, with the
\* trimmed content, behind the entries of the earlier calls
AppendLocalAddsOnePerCall ==
    [][ /\ (lastOp' = WidgetAppend("text"))
              => (messages' = Append(messages, Message("user", Trim(messageText), NowISO)))
        /\ (lastOp' = DashboardAppend("text"))
              => (sessionMessages' =
                      Append(sessionMessages, Message("admin", Trim(replyText), NowISO)))
      ]_vars

\* C4 (amended): every appendLocal call whose content is neither empty nor only
\* white space, by sendMessage, or by sendReply while a conversation is selected,
\* adds exactly one entry, with the trimmed content, behind the entries of the
\* earlier calls; sendReply with no conversation selected adds nothing
AppendLocalAddsOnePerCallOnView ==
    [][ /\ (lastOp' = WidgetAppend("text"))
              => (messages' = Append(messages, Message("user", Trim(messageText), NowISO)))
        /\ (lastOp' = DashboardAppend("text") /\ selectedSession # NoSession)
              => (sessionMessages' =
                      Append(sessionMessages, Message("admin", Trim(replyText), NowISO)))
        /\ (lastOp' = DashboardAppend("text") /\ selectedSession = NoSession)
              => (sessionMessages' = sessionMessages)
      ]_vars

\* The operator's second reply in the selected conversation is on screen, behind
\* the first
AppendLocalTwiceSeen ==
    /\ lastOp = DashboardAppend("text")
    /\ selectedSession # NoSession
    /\ Len(sessionMessages) >= 2
    /\ \A i \in {Len(sessionMessages) - 1, Len(sessionMessages)} :
            sessionMessages[i].sender = "admin"
    /\ sessionMessages[Len(sessionMessages) - 1].createdAt
            < sessionMessages[Len(sessionMessages)].createdAt

\* C5: an appendLocal call with empty or white-space-only content changes no
\* visible sequence and emits nothing
BlankAppendLocalIsNoOp ==
    [][ (lastOp'.op = "appendLocal" /\ lastOp'.given \in {"empty", "blank"})
            => UNCHANGED << messages, sessionMessages, outbox, adminOutbox >>
      ]_vars

\* The widget was just asked to send white space, with an entry on screen
BlankAppendLocalSeen ==
    /\ lastOp = WidgetAppend("blank")
    /\ messages # << >>
    /\ outbox = << >>

----------------------------------------------------------------------------
(* Echoes *)

Echo == LogEntry("mergeIncoming", "user")

\* The operations of a log without the deliveries of echoes
RECURSIVE WithoutEchoes(_)
WithoutEchoes(log) ==
    IF log = << >> THEN << >>
    ELSE (IF Head(log) = Echo THEN << >> ELSE << Head(log) >>) \o WithoutEchoes(Tail(log))

HelloSent     == << LogEntry("appendLocal", "user") >>
HelloEchoed   == Append(HelloSent, Echo)
HelloAnswered == Append(HelloEchoed, LogEntry("mergeIncoming", "admin"))

HelloScenario(origin) ==
    (route = "/") =>
        /\ (userLog = HelloSent) =>
                /\ Len(messages) = 1
                /\ messages[1].sender = "user"
                /\ Origin(messages[1]) = origin
        /\ ( /\ userLog = HelloSent
             /\ lastOp = WidgetAppend("text")
             /\ outbox[Len(outbox)].content = Hello ) => (messages[1].content = Hello)
        /\ (userLog = HelloEchoed) => (Len(messages) = 1)
        /\ (userLog = HelloAnswered) =>
                /\ Len(messages) = 2
                /\ messages[2].sender = "admin"

----------------------------------------------------------------------------
(* Session identity *)

\* C8: once an identifier is stored under the key, no step changes the stored
\* value, and every activation (the chat opening, after any closes and reloads)
\* takes that identifier as it is and announces it in init_session
StoredIdReused ==
    [][ (localStorage # Null) =>
            /\ localStorage' = localStorage
            /\ (~open /\ open') =>
                    /\ currentSessionId' = localStorage
                    /\ outbox'[Len(outbox')] =
                            Event("init_session", localStorage, NoContent)
      ]_vars

\* The chat is open again on a conversation an earlier activation wrote in
StoredIdReusedSeen ==
    /\ open
    /\ messages = << >>
    /\ localStorage # Null
    /\ store[localStorage] # << >>
    /\ currentSessionId = localStorage

\* C9: an init_session in flight carries the identifier that durable storage
\* already holds, so whatever activation follows, before or after the
\* acknowledgment, reads that identifier
PersistedBeforeHandshake ==
    /\ \A i \in 1 .. Len(outbox) :
            (outbox[i].event = "init_session") => (outbox[i].sessionId = localStorage)
    /\ open => (localStorage # Null)

\* The chat was activated again while the answer to the first handshake had
\* not been delivered
PersistedBeforeHandshakeSeen ==
    /\ open
    /\ outbox # << >>
    /\ Head(outbox) = Event("init_session", localStorage, NoContent)
    /\ inbox # << >>
    /\ Head(inbox).type = "ack"

\* C10: once the backend has acknowledged the handshake and the acknowledgment
\* has reached the open chat, with nothing else in flight, the chat's session
\* identifier is the one the backend confirmed
AckAdoptsConfirmedId ==
    ( /\ route = "/"
      /\ open
      /\ serverSession # Null
      /\ outbox = << >>
      /\ inbox = << >> )
        => (currentSessionId = serverSession)

----------------------------------------------------------------------------
(* Roster synchronisation *)

RosterReplace == Op("dashboard", "replaceRoster", "none", "none")

\* The snapshot a sessions-list delivery step is processing, and its entry for the
\* selected conversation (NoSession if it has none)
SnapshotInHand == Head(adminInbox).data
SnapshotEntry  == find(SnapshotInHand, selectedSession.sessionId)

\* C11: a step that processes a sessions-list snapshot while a conversation is
\* selected, the snapshot holding no entry with the selected identifier, ends
\* with no conversation selected
AbsentSelectionCleared ==
    [][ ( /\ lastOp' = RosterReplace
          /\ selectedSession # NoSession
          /\ SnapshotEntry = NoSession ) => (selectedSession' = NoSession)
      ]_vars

\* C12: a step that processes a sessions-list snapshot leaves the roster equal to
\* the snapshot, whatever the roster was, and, the selected identifier being in
\* the snapshot, the selected entry equal to the snapshot's entry for it
RosterReplacedBySnapshot ==
    [][ (lastOp' = RosterReplace) =>
            /\ sessions' = SnapshotInHand
            /\ (selectedSession # NoSession /\ SnapshotEntry # NoSession)
                    => (selectedSession' = SnapshotEntry)
      ]_vars

\* A snapshot that dropped a conversation of the roster and carries fresh
\* indicators for the selected one has just been processed
RosterReplacedSeen ==
    /\ lastOp = RosterReplace
    /\ Len(sessions) = 1
    /\ selectedSession = sessions[1]
    /\ selectedSession.unread
    /\ \E s \in Ids : s # selectedSession.sessionId /\ store[s] # << >>

\* The conversation a new-message push is for, and whether it is the open one
PushInHand == Head(adminInbox).data
PushIsForOpen ==
    selectedSession # NoSession /\ PushInHand.sessionId = selectedSession.sessionId

\* C13: a step that handles a new-message push for conversation S passes the
\* message to the open conversation's mergeIncoming exactly when S is the open
\* conversation, leaves the open sequence alone otherwise, and marks the roster
\* entry of S, and no other, either way
NewMessageRouted ==
    [][ (lastOp'.view = "dashboard" /\ lastOp'.op \in {"mergeIncoming", "notify"}) =>
            /\ (lastOp'.op = "mergeIncoming") <=> PushIsForOpen
            /\ (PushIsForOpen /\ PushInHand.message.sender = "user")
                    => (sessionMessages' = Append(sessionMessages, PushInHand.message))
            /\ ~PushIsForOpen => (sessionMessages' = sessionMessages)
            /\ Len(sessions') = Len(sessions)
            /\ \A i \in 1 .. Len(sessions) :
                    sessions'[i] = IF sessions[i].sessionId = PushInHand.sessionId
                                   THEN RosterEntry(PushInHand.sessionId, TRUE)
                                   ELSE sessions[i]
      ]_vars

\* A push for a conversation other than the open one has just been handled: the
\* open sequence is as the history left it and the other entry is marked
NewMessageElsewhereSeen ==
    /\ lastOp = Op("dashboard", "notify", "user", "none")
    /\ selectedSession # NoSession
    /\ adminLog = << LogEntry("reset", "none") >>
    /\ \E i \in 1 .. Len(sessions) :
            sessions[i].sessionId # selectedSession.sessionId /\ sessions[i].unread

----------------------------------------------------------------------------
(* The connection *)

\* C14: no transition of the connection changes the registered handlers, and a
\* successful reconnection leaves the connection connected, so that the handlers
\* registered before the loss receive what is delivered afterwards
ReconnectKeepsSubscriptions ==
    [][ /\ (lastOp'.view = "connection") => (listeners' = listeners)
        /\ (lastOp' = ConnOp("reconnect")) =>
                (connection = "reconnecting" /\ connection' = "connected")
        /\ (lastOp' = RosterReplace /\ losses > 0) =>
                (connection = "connected" /\ sessions' = SnapshotInHand)
      ]_vars

\* After a loss and a reconnection, the sessions-list handler registered before the
\* loss has just processed a snapshot
ReconnectKeepsSubscriptionsSeen ==
    /\ lastOp = RosterReplace
    /\ losses = 1
    /\ connection = "connected"
    /\ listeners["sessions-list"] = << 0 >>
    /\ sessions # << >>

ConnectionMoves ==
    { << "disconnected", "connecting" >>, << "connecting", "connected" >>,
      << "connected", "reconnecting" >>, << "reconnecting", "connected" >>,
      << "reconnecting", "disconnected" >> }

\* C15: the connection state changes only along the listed moves; the count of
\* failed attempts never exceeds reconnectionAttempts; the connection gives up
\* (reconnecting to disconnected) only with the attempts exhausted, and with the
\* attempts exhausted it neither tries again nor comes back connected
ConnectionStateMachine ==
    [][ /\ connection' \in ConnectionStates
        /\ (connection' # connection) => (<< connection, connection' >> \in ConnectionMoves)
        /\ attempts' <= reconnectionAttempts
        /\ (connection = "reconnecting" /\ connection' = "disconnected")
                => (attempts = reconnectionAttempts)
        /\ (connection = "reconnecting" /\ attempts = reconnectionAttempts)
                => (connection' \in {"reconnecting", "disconnected"} /\ attempts' = attempts)
      ]_vars

\* The connection gave up after the last attempt allowed
ConnectionGaveUpSeen ==
    /\ lastOp = ConnOp("reconnect_failed")
    /\ connection = "disconnected"
    /\ attempts = reconnectionAttempts

\* Whether sequence a is the beginning of sequence b
IsPrefix(a, b) == Len(a) <= Len(b) /\ SubSeq(b, 1, Len(a)) = a

NoRollback ==
    [][ /\ (open /\ open') => IsPrefix(messages, messages')
        /\ (lastOp'.op # "reset") => IsPrefix(sessionMessages, sessionMessages')
        /\ (lastOp'.view = "connection") => UNCHANGED << messages, sessionMessages >>
      ]_vars

\* The connection gave up with an entry never transmitted still on screen
NoRollbackSeen ==
    /\ connection = "disconnected"
    /\ open
    /\ messages # << >>
    /\ outbox # << >>
    /\ outbox[Len(outbox)].event = "user_message"
    /\ store[currentSessionId] = << >>

\* The inbound events each view subscribes to
ChatEvents      == {"message", "session_init"}
DashboardEvents == {"sessions-list", "new-message", "messages-history"}

SingleConnection == sockets = 1

\* The chat is mounted again on the connection an earlier mount did its
\* handshake on
SingleConnectionSeen ==
    /\ open
    /\ connection = "connected"
    /\ serverSession # Null
    /\ outbox # << >>
    /\ outbox[Len(outbox)].event = "init_session"

\* C20: the connection state and the count of failed attempts change only in a
\* transition of the connection: sending, merging, resetting, the handshake and
\* the roster handlers leave both as they are
ConnectionOwnedByManager ==
    [][ (connection' # connection \/ attempts' # attempts)
            => (lastOp'.view = "connection")
      ]_vars

\* A message has just been sent with the connection given up
ConnectionOwnedByManagerSeen ==
    /\ lastOp = WidgetAppend("text")
    /\ connection = "disconnected"
    /\ attempts = reconnectionAttempts

----------------------------------------------------------------------------
(* Loading a conversation's history *)

DashboardReset == Op("dashboard", "reset", "none", "none")

\* C21: a step that resets the operator's view to a pushed history leaves the
\* visible sequence equal to that history exactly, whatever it was before: no
\* earlier entry survives unless the history holds it, and since the outcome is
\* the history alone, the same reset applied again changes nothing
ResetReplacesSequence ==
    [][ (lastOp' = DashboardReset) => (sessionMessages' = Head(adminInbox).data) ]_vars

\* The view has just been reset to the history of s2, which lacks the operator's
\* reply stored in s1
ResetReplacesSequenceSeen ==
    /\ lastOp = DashboardReset
    /\ selectedSession.sessionId = "s2"
    /\ sessionMessages = store["s2"]
    /\ \E i \in 1 .. Len(store["s1"]) : store["s1"][i].sender = "admin"
    /\ \A i \in 1 .. Len(sessionMessages) : sessionMessages[i].sender # "admin"
----------------------------------------------------------------------------
(* Failures *)

\* The operation was refused for its content, or the remote call it made failed
Failed(op) ==
    \/ op \in {WidgetAppend("empty"), WidgetAppend("blank"),
                DashboardAppend("empty"), DashboardAppend("blank")}
    \/ op = ServiceOp("rejected")

\* C22: a step whose operation fails, a send refused because its content is empty
\* or only white space, or a generateResponse call that rejects, leaves the message
\* sequences of the views and the roster exactly as they were
FailureIsLocal ==
    [][ Failed(lastOp') => /\ messages' = messages
                           /\ sessionMessages' = sessionMessages
                           /\ sessions' = sessions ]_vars

\* generateResponse has just rejected, the remote service having answered 500,
\* with a message on screen
FailureIsLocalSeen ==
    /\ lastOp = ServiceOp("rejected")
    /\ call.reply = Response(500, Empty)
    /\ messages # << >>

KeyNotConfigured == Missing(apiKey) \/ apiKey = Placeholder

\* C23: once generateResponse has been called, with the key missing or the
\* placeholder it has rejected with 'OpenAI API key is not configured' and issued
\* no request; with a response of a non-success status it has rejected with the
\* error that names the status; and it has returned a text, the trimmed completion,
\* only with a response of a success status
ServiceFailsDescriptively ==
    call.asked =>
        /\ KeyNotConfigured
              => (settled = Rejected(KeyError) /\ request = NoRequest
                    /\ call.reply = NotFetched)
        /\ (call.reply \notin {NotFetched, NetworkError} /\ call.reply.status \notin 200 .. 299)
              => (settled = Rejected(<< "OpenAI API error: " \o ToString(call.reply.status) >>))
        /\ (settled.state = "fulfilled")
              => (/\ ~KeyNotConfigured
                  /\ call.reply.status \in 200 .. 299
                  /\ settled.value = Trim(call.reply.content))

\* A call made with the placeholder key has been rejected
ServiceFailsDescriptivelySeen ==
    /\ call.asked
    /\ apiKey = Placeholder
    /\ settled = Rejected(KeyError)

\* C29: the request the last call built holds the system prompt first, then the
\* last min(n, 5) of the n history entries in their order, then the user message:
\* min(n, 5) + 2 messages
RequestHoldsLastFive ==
    (request # NoRequest) =>
        LET history == call.conversationHistory
            n == Len(history)
            k == IF n < 5 THEN n ELSE 5
        IN  /\ Len(request.messages) = k + 2
            /\ request.messages[1] = SystemPrompt
            /\ \A i \in 1 .. k : request.messages[1 + i] = history[n - k + i]
            /\ request.messages[k + 2] = [role |-> "user", content |-> call.userMessage]

\* A request has been built from a history of more than five entries
RequestHoldsLastFiveSeen ==
    /\ request # NoRequest
    /\ Len(call.conversationHistory) > 5
    /\ Len(request.messages) = 7
----------------------------------------------------------------------------
(* Two tabs on one conversation *)

\* C24: two tabs that show the same persisted conversation, both open since before
\* its first message, show the same message sequence once nothing is in flight to
\* the backend or to either tab
TabsSynchronized ==
    ( /\ open
      /\ peerTab.open
      /\ peerTab.currentSessionId = currentSessionId
      /\ serverSession = currentSessionId
      /\ peerTab.missed = 0
      /\ outbox = << >>
      /\ inbox = << >>
      /\ peerTab.inbox = << >> )
        => (Keys(peerTab.messages) = Keys(messages))
----------------------------------------------------------------------------
(* Closing and reopening the chat *)

\* C25: a step that opens the chat window right after it was closed shows the
\* message sequence the window showed when it was closed
ReopenMaintainsHistory ==
    [][ (lastOp.op = "close" /\ ~open /\ open') => (messages' = lastOp.shown) ]_vars
----------------------------------------------------------------------------
(* The roster exchange *)

\* C26: a step that processes a sessions-list snapshot, whether or not it
\* re-resolves the selected conversation, emits nothing: after the get-sessions of
\* the activation, a snapshot is never answered by another request
SnapshotEndsExchange ==
    [][ (lastOp' = RosterReplace) => (adminOutbox' = adminOutbox) ]_vars
----------------------------------------------------------------------------
(* The history of the selected conversation *)

\* C27: a step that resets the operator's view to a pushed history, with a
\* conversation selected, leaves the view showing messages of that conversation:
\* what the backend had stored for it when it answered, a prefix of what it has
\* stored for it now
HistoryIsOfSelected ==
    [][ (lastOp' = DashboardReset /\ selectedSession # NoSession)
            => IsPrefix(sessionMessages', store[selectedSession.sessionId]) ]_vars
----------------------------------------------------------------------------
(* Appending and emitting *)

\* The step added one entry to the sequence `shown` and one event to `queue`: an
\* event `name` for the conversation `sessionId`, with the entry's content, the
\* trimmed `text`
Paired(shown, shownAfter, queue, queueAfter, name, sessionId, text) ==
    /\ shownAfter # << >>
    /\ queueAfter # << >>
    /\ shownAfter = Append(shown, shownAfter[Len(shownAfter)])
    /\ queueAfter = Append(queue, queueAfter[Len(queueAfter)])
    /\ shownAfter[Len(shownAfter)].content = Trim(text)
    /\ queueAfter[Len(queueAfter)] = Event(name, sessionId, Trim(text))
    /\ sessionId # Null

\* C28: a sendMessage or sendReply step either appends one entry and emits one
\* event (user_message, respectively admin_message) with that entry's trimmed
\* content and the non-null identifier of the widget's conversation, respectively
\* of the selected one, or does neither; sendReply with no conversation selected
\* does neither; and no other step emits such an event
AppendPairedWithEmit ==
    [][ /\ (lastOp'.view = "widget" /\ lastOp'.op = "appendLocal")
              => \/ (messages' = messages /\ outbox' = outbox)
                 \/ Paired(messages, messages', outbox, outbox',
                           "user_message", currentSessionId, messageText)
        /\ (lastOp'.view = "dashboard" /\ lastOp'.op = "appendLocal")
              => \/ (sessionMessages' = sessionMessages /\ adminOutbox' = adminOutbox)
                 \/ (/\ selectedSession # NoSession
                     /\ Paired(sessionMessages, sessionMessages', adminOutbox, adminOutbox',
                               "admin_message", selectedSession.sessionId, replyText))
        /\ (Len(outbox') > Len(outbox) /\ outbox'[Len(outbox')].event = "user_message")
              => (lastOp'.op = "appendLocal" /\ Len(messages') = Len(messages) + 1)
        /\ (Len(adminOutbox') > Len(adminOutbox)
                /\ adminOutbox'[Len(adminOutbox')].event = "admin_message")
              => (lastOp'.op = "appendLocal"
                    /\ Len(sessionMessages') = Len(sessionMessages) + 1)
      ]_vars

\* The operator's reply to the selected conversation has just been appended and
\* its admin_message is on its way
AppendPairedWithEmitSeen ==
    /\ lastOp = DashboardAppend("text")
    /\ selectedSession # NoSession
    /\ adminOutbox # << >>
    /\ adminOutbox[Len(adminOutbox)]
          = Event("admin_message", selectedSession.sessionId,
                  sessionMessages[Len(sessionMessages)].content)
====
